---- MODULE Spec2Model ----
(***************************************************************************)
(* A model of the Typo spell-checking engine of src/typo/typo.js: the      *)
(* constructor (parseAFF, parseDIC with addWord and applyRule, the         *)
(* compound-rule compilation), the word checker (check, checkExact,        *)
(* hasFlag) and the suggestion engine (suggest with its memo cache,        *)
(* edits1, known, correct).                                                *)
(*                                                                         *)
(* Strings are sequences of one-character strings, so that the code's      *)
(* trimming, case conversion, slicing and matching are computed.  The      *)
(* affix and dictionary files are given line by line, each line already    *)
(* split into its tokens.  Regular expressions are modelled for the        *)
(* patterns the modelled files hold: literal affix conditions and strip    *)
(* strings, and compound rules that are sequences of flag letters.         *)
(***************************************************************************)
EXTENDS Integers, Sequences, FiniteSets, TLC

(***************************************************************************)
(* Bounds of the model.                                                    *)
(***************************************************************************)
\* the number of lines parseDIC reads after the count line
MaxEntries == 2
\* the suggestion alphabet is the first AlphabetSize letters of a..z
AlphabetSize == 3

\* suggest: limit = limit || 5
DefaultLimit == 5

(***************************************************************************)
(* Characters and strings.                                                 *)
(***************************************************************************)
Lower26 ==
  << "a", "b", "c", "d", "e", "f", "g", "h", "i", "j", "k", "l", "m",
     "n", "o", "p", "q", "r", "s", "t", "u", "v", "w", "x", "y", "z" >>

Upper26 ==
  << "A", "B", "C", "D", "E", "F", "G", "H", "I", "J", "K", "L", "M",
     "N", "O", "P", "Q", "R", "S", "T", "U", "V", "W", "X", "Y", "Z" >>

\* the upper-case and the lower-case letter of each letter
UpperOf == [c \in {Lower26[i] : i \in 1..26} |->
              Upper26[CHOOSE i \in 1..26 : Lower26[i] = c]]

LowerOf == [c \in {Upper26[i] : i \in 1..26} |->
              Lower26[CHOOSE i \in 1..26 : Upper26[i] = c]]

\* String.prototype.toUpperCase, one character
UpperChar(c) == IF c \in DOMAIN UpperOf THEN UpperOf[c] ELSE c

\* String.prototype.toLowerCase, one character
LowerChar(c) == IF c \in DOMAIN LowerOf THEN LowerOf[c] ELSE c

toUpperCase(s) == [i \in 1..Len(s) |-> UpperChar(s[i])]

toLowerCase(s) == [i \in 1..Len(s) |-> LowerChar(s[i])]

\* the characters \s matches, among those of the model
IsSpace(c) == c = " "

\* s.substring(k) with k counted from 0
substring(s, k) == IF k >= Len(s) THEN << >> ELSE SubSeq(s, k + 1, Len(s))

\* s.replace(/^\s\s*/, '')
RECURSIVE TrimLeft(_)
TrimLeft(s) ==
  IF s # << >> /\ IsSpace(s[1]) THEN TrimLeft(Tail(s)) ELSE s

\* s.replace(/\s\s*$/, '')
RECURSIVE TrimRight(_)
TrimRight(s) ==
  IF s # << >> /\ IsSpace(s[Len(s)])
    THEN TrimRight(SubSeq(s, 1, Len(s) - 1))
    ELSE s

\* aWord.replace(/^\s\s*/, '').replace(/\s\s*$/, ''), and String.prototype.trim
Trim(s) == TrimRight(TrimLeft(s))

\* whether pat occurs in s at position pos (from 1)
OccursAt(s, pat, pos) ==
  /\ pos >= 1
  /\ pos + Len(pat) - 1 <= Len(s)
  /\ \A k \in 1..Len(pat) : s[pos + k - 1] = pat[k]

\* s.indexOf(pat) counted from 1, 0 when pat does not occur
indexOf(s, pat) ==
  IF \E p \in 1..(Len(s) + 1) : OccursAt(s, pat, p)
    THEN CHOOSE p \in 1..(Len(s) + 1) :
           /\ OccursAt(s, pat, p)
           /\ \A q \in 1..(p - 1) : ~OccursAt(s, pat, q)
    ELSE 0

\* s.replace(pat, by) for a string pattern: the first occurrence only
replaceFirst(s, pat, by) ==
  LET p == indexOf(s, pat)
  IN  IF p = 0 THEN s
      ELSE SubSeq(s, 1, p - 1) \o by \o SubSeq(s, p + Len(pat), Len(s))

EndsWith(s, suf) == OccursAt(s, suf, Len(s) - Len(suf) + 1)

StartsWith(s, pre) == OccursAt(s, pre, 1)

\* array.indexOf(x) !== -1
Contains(arr, x) == \E i \in 1..Len(arr) : arr[i] = x

\* the string JavaScript makes of undefined when it is concatenated
UndefinedStr == << "u", "n", "d", "e", "f", "i", "n", "e", "d" >>

\* the number a flag value such as COMPOUNDMIN's stands for in a comparison
ToNumber(v) ==
  CASE v = "1" -> 1 [] v = "2" -> 2 [] v = "3" -> 3 [] v = "4" -> 4
    [] v = "5" -> 5 [] OTHER -> 0

\* obj[k] = v on an object used as a map
Put(f, k, v) == [x \in (DOMAIN f) \cup {k} |-> IF x = k THEN v ELSE f[x]]

\* delete obj[k]
Remove(f, k) == [x \in (DOMAIN f) \ {k} |-> f[x]]

EmptyMap == [x \in {} |-> 0]

(***************************************************************************)
(* Outcomes of a call: a boolean, a list of words, or a thrown error.      *)
(***************************************************************************)
NotLoadedError == "Dictionary not loaded."

RetBool(b) == [kind |-> "bool", b |-> b, l |-> << >>, e |-> ""]

RetList(l) == [kind |-> "list", b |-> FALSE, l |-> l, e |-> ""]

Throw(e) == [kind |-> "throw", b |-> FALSE, l |-> << >>, e |-> e]

NoOutcome == [kind |-> "none", b |-> FALSE, l |-> << >>, e |-> ""]

(***************************************************************************)
(* The files.  A line of the affix file is a record of its tokens:         *)
(*   PFX/SFX header   directive code combineable count                     *)
(*   PFX/SFX entry    directive code strip add[/cont] cond                 *)
(*   COMPOUNDRULE     directive count, then lines directive text           *)
(*   REP              directive from to  (ntok tokens on the line)         *)
(*   anything else    directive value                                      *)
(* A line of the dictionary file is word or word/codes.                    *)
(***************************************************************************)
AffLine(d) ==
  [directive |-> d, code |-> "", combineable |-> "", count |-> 0,
   strip |-> << >>, add |-> << >>, cont |-> << >>, cond |-> << >>,
   text |-> << >>, from |-> << >>, to |-> << >>, value |-> "", ntok |-> 1]

AffixHeader(type, code, comb, n) ==
  [AffLine(type) EXCEPT !.code = code, !.combineable = comb, !.count = n,
                        !.ntok = 4]

AffixEntry(type, code, strip, add, cont, cond) ==
  [AffLine(type) EXCEPT !.code = code, !.strip = strip, !.add = add,
                        !.cont = cont, !.cond = cond, !.ntok = 5]

CompoundHeader(n) == [AffLine("COMPOUNDRULE") EXCEPT !.count = n, !.ntok = 2]

CompoundLine(text) == [AffLine("COMPOUNDRULE") EXCEPT !.text = text, !.ntok = 2]

RepLine(from, to, ntok) ==
  [AffLine("REP") EXCEPT !.from = from, !.to = to, !.ntok = ntok]

FlagLine(name, value) == [AffLine(name) EXCEPT !.value = value, !.ntok = 2]

DicLine(word, slash, codes) == [word |-> word, slash |-> slash, codes |-> codes]

\* an affix file with every directive the engine reads: a suffix rule S that
\* appends "s" and continues with P, a prefix rule P that prepends "c" to a
\* word in a, the compound rule AB, a replacement pair bb -> b, a REP line
\* that lacks its third token, and the flags K, N, O, X
AffFull ==
  << FlagLine("KEEPCASE", "K"),
     FlagLine("NEEDAFFIX", "N"),
     FlagLine("ONLYINCOMPOUND", "O"),
     FlagLine("NOSUGGEST", "X"),
     FlagLine("COMPOUNDMIN", "3"),
     CompoundHeader(1),
     CompoundLine(<< "A", "B" >>),
     RepLine(<< "b", "b" >>, << "b" >>, 3),
     RepLine(<< "c" >>, << >>, 2),
     AffixHeader("SFX", "S", "Y", 1),
     AffixEntry("SFX", "S", << "0" >>, << "s" >>, << "P" >>, << "." >>),
     AffixHeader("PFX", "P", "Y", 1),
     AffixEntry("PFX", "P", << "0" >>, << "c" >>, << >>, << "a" >>) >>

\* an affix file with the suffix rule alone: no flag is declared
AffPlain ==
  << AffixHeader("SFX", "S", "N", 1),
     AffixEntry("SFX", "S", << "0" >>, << "s" >>, << >>, << "." >>) >>

\* an affix file that declares the numeric flag encoding
AffNum ==
  << FlagLine("FLAG", "num"),
     AffixHeader("SFX", "S", "Y", 1),
     AffixEntry("SFX", "S", << "0" >>, << "s" >>, << >>, << "." >>) >>

AffFiles == {AffFull, AffPlain, AffNum}

\* the lines a dictionary file is made of
DicLines ==
  { DicLine(<< "a", "b" >>, FALSE, << >>),
    DicLine(<< "A", "b" >>, FALSE, << >>),
    DicLine(<< "a", "b" >>, TRUE, << "S" >>),
    DicLine(<< "a", "b" >>, TRUE, << "K" >>),
    DicLine(<< "a", "b" >>, TRUE, << "N", "S", "P" >>),
    DicLine(<< "a", "b" >>, TRUE, << "N", "A" >>),
    DicLine(<< "c" >>, TRUE, << "N", "B" >>) }

(***************************************************************************)
(* The Flag Codec.                                                         *)
(***************************************************************************)
\* parseRuleCodes(textCodes): the codes, or the error it throws
parseRuleCodes(textCodes, fl) ==
  IF textCodes = << >>
    THEN [ok |-> TRUE, codes |-> << >>, e |-> ""]
  ELSE IF "FLAG" \notin DOMAIN fl
    THEN [ok |-> TRUE, codes |-> textCodes, e |-> ""]
  ELSE IF fl["FLAG"] = "long"
    THEN [ok |-> TRUE,
          codes |-> [i \in 1..((Len(textCodes) + 1) \div 2) |->
                       IF 2 * i <= Len(textCodes)
                         THEN textCodes[2 * i - 1] \o textCodes[2 * i]
                         ELSE textCodes[2 * i - 1]],
          e |-> ""]
  ELSE IF fl["FLAG"] = "num"
    \* textCode.split(','): textCode is not defined
    THEN [ok |-> FALSE, codes |-> << >>, e |-> "ReferenceError"]
  ELSE [ok |-> TRUE, codes |-> textCodes, e |-> ""]

(***************************************************************************)
(* The Affix Rule Parser.                                                  *)
(***************************************************************************)
\* one entry line of a PFX/SFX block
ParseAffixEntry(line, ruleType, fl) ==
  LET cc == parseRuleCodes(line.cont, fl)
  IN  [ok |-> cc.ok, e |-> cc.e,
       entry |->
         [add |-> IF line.add = << "0" >> THEN << >> ELSE line.add,
          hasCont |-> Len(cc.codes) > 0,
          continuationClasses |-> cc.codes,
          hasMatch |-> line.cond # << "." >>,
          match |-> line.cond,
          hasRemove |-> line.strip # << "0" >>,
          remove |-> line.strip]]

RECURSIVE ParseAFFFrom(_, _, _)
\* the loop of parseAFF from line i on; st holds rules, flags, compoundRules
\* and replacementTable as built so far
ParseAFFFrom(lines, i, st) ==
  IF i > Len(lines) \/ ~st.ok THEN st
  ELSE
    LET line == lines[i]
        ruleType == line.directive
    IN  IF ruleType = "PFX" \/ ruleType = "SFX"
          THEN
            LET numEntries == line.count
                parsed == [j \in 1..numEntries |->
                             ParseAffixEntry(lines[i + j], ruleType, st.flags)]
                bad == {j \in 1..numEntries : ~parsed[j].ok}
                rule == [type |-> ruleType,
                         combineable |-> (line.combineable = "Y"),
                         entries |-> [j \in 1..numEntries |-> parsed[j].entry]]
            IN  IF bad # {}
                  THEN [st EXCEPT !.ok = FALSE,
                                  !.e = parsed[CHOOSE j \in bad : TRUE].e]
                  ELSE ParseAFFFrom(lines, i + numEntries + 1,
                         [st EXCEPT !.rules = Put(st.rules, line.code, rule)])
        ELSE IF ruleType = "COMPOUNDRULE"
          THEN
            LET numEntries == line.count
            IN  ParseAFFFrom(lines, i + numEntries + 1,
                  [st EXCEPT !.compoundRules =
                     st.compoundRules \o
                       [j \in 1..numEntries |->
                          [text |-> lines[i + j].text,
                           regex |-> << >>,
                           compiled |-> FALSE]]])
        ELSE IF ruleType = "REP"
          THEN
            ParseAFFFrom(lines, i + 1,
              IF line.ntok = 3
                THEN [st EXCEPT !.replacementTable =
                        Append(st.replacementTable, << line.from, line.to >>)]
                ELSE st)
        ELSE
            ParseAFFFrom(lines, i + 1,
              [st EXCEPT !.flags = Put(st.flags, ruleType, line.value)])

\* parseAFF(data), with the fields of the engine it writes
parseAFF(lines, fl, cr, rt) ==
  ParseAFFFrom(lines, 1,
    [ok |-> TRUE, e |-> "", rules |-> EmptyMap, flags |-> fl,
     compoundRules |-> cr, replacementTable |-> rt])

(***************************************************************************)
(* The Rule Applier.                                                       *)
(***************************************************************************)
RECURSIVE Flatten(_)
\* the concatenation of a list of lists
Flatten(ss) == IF ss = << >> THEN << >> ELSE Head(ss) \o Flatten(Tail(ss))

\* word.match(entry.match): the condition anchored at the end (SFX) or at
\* the start (PFX)
EntryMatches(word, entry, type) ==
  \/ ~entry.hasMatch
  \/ IF type = "SFX" THEN EndsWith(word, entry.match)
                     ELSE StartsWith(word, entry.match)

\* newWord.replace(entry.remove, ''): a suffix for SFX, the first occurrence
\* of the string for PFX
RemoveChars(word, entry, type) ==
  IF ~entry.hasRemove THEN word
  ELSE IF type = "SFX"
    THEN IF EndsWith(word, entry.remove)
           THEN SubSeq(word, 1, Len(word) - Len(entry.remove))
           ELSE word
  ELSE replaceFirst(word, entry.remove, << >>)

RECURSIVE applyRule(_, _, _)
\* applyRule(word, rule): the new words, those of the continuation classes
\* after the word they continue
applyRule(word, rule, rs) ==
  Flatten(
    [i \in 1..Len(rule.entries) |->
       LET entry == rule.entries[i]
       IN  IF EntryMatches(word, entry, rule.type)
             THEN
               LET stripped == RemoveChars(word, entry, rule.type)
                   newWord == IF rule.type = "SFX" THEN stripped \o entry.add
                                                   ELSE entry.add \o stripped
               IN  << newWord >> \o
                   (IF entry.hasCont
                      THEN Flatten(
                             [j \in 1..Len(entry.continuationClasses) |->
                                IF entry.continuationClasses[j] \in DOMAIN rs
                                  THEN applyRule(newWord,
                                         rs[entry.continuationClasses[j]], rs)
                                  ELSE << >>])
                      ELSE << >>)
             ELSE << >>])

(***************************************************************************)
(* The Dictionary Builder.  A value of the dictionary table is null or a   *)
(* list of rule-code sets.                                                 *)
(***************************************************************************)
Null == [tag |-> "null", sets |-> << >>]

List(sets) == [tag |-> "list", sets |-> sets]

\* typeof v, for the values the table holds: typeof null is 'object' too
TypeOf(v) == "object"

\* addWord(word, rules) on the table t: the table after it, or the error of
\* dictionaryTable[word].push(rules) when dictionaryTable[word] is null
addWord(t, word, rules) ==
  LET t1 == IF word \notin DOMAIN t THEN Put(t, word, Null) ELSE t
  IN  IF Len(rules) > 0
        THEN
          LET t2 == IF word \notin DOMAIN t1 \/ TypeOf(t1[word]) # "object"
                      THEN Put(t1, word, List(<< >>))
                      ELSE t1
          IN  IF t2[word].tag = "null"
                THEN [ok |-> FALSE, e |-> "TypeError", table |-> t2]
                ELSE [ok |-> TRUE, e |-> "",
                      table |-> Put(t2, word,
                                    List(Append(t2[word].sets, rules)))]
        ELSE [ok |-> TRUE, e |-> "", table |-> t1]

RECURSIVE AddWords(_, _)
\* addWord(w, []) for each word of ws in turn
AddWords(t, ws) ==
  IF ws = << >> THEN t ELSE AddWords(addWord(t, Head(ws), << >>).table, Tail(ws))

\* the words lines 317-346 of parseDIC register for a line word/codes, in the
\* order of registration: for each code that names a rule the new words of
\* the rule, each followed by what the later combineable rules of the other
\* type make of it
DerivedWords(word, codes, rs) ==
  Flatten(
    [j \in 1..Len(codes) |->
       IF codes[j] \in DOMAIN rs
         THEN
           LET rule == rs[codes[j]]
               newWords == applyRule(word, rule, rs)
           IN  Flatten(
                 [ii \in 1..Len(newWords) |->
                    << newWords[ii] >> \o
                    (IF rule.combineable
                       THEN Flatten(
                              [k \in 1..Len(codes) |->
                                 IF /\ k > j
                                    /\ codes[k] \in DOMAIN rs
                                    /\ rs[codes[k]].combineable
                                    /\ rule.type # rs[codes[k]].type
                                   THEN applyRule(newWords[ii], rs[codes[k]], rs)
                                   ELSE << >>])
                       ELSE << >>)])
         ELSE << >>])

RECURSIVE PushCompoundWord(_, _, _)
\* lines 348-349 for each code in turn: compoundRuleCodes[code].push(word)
PushCompoundWord(crc, codes, word) ==
  IF codes = << >> THEN crc
  ELSE PushCompoundWord(
         IF Head(codes) \in DOMAIN crc
           THEN Put(crc, Head(codes), Append(crc[Head(codes)], word))
           ELSE crc,
         Tail(codes), word)

\* one turn of the loop of parseDIC (lines 302-354) on a line
parseDICLine(t, crc, line, rs, fl) ==
  IF line.slash
    THEN
      LET parsed == parseRuleCodes(line.codes, fl)
          ruleCodesArray == parsed.codes
          base == IF "NEEDAFFIX" \notin DOMAIN fl
                     \/ ~Contains(ruleCodesArray, fl["NEEDAFFIX"])
                    THEN addWord(t, line.word, ruleCodesArray)
                    ELSE [ok |-> TRUE, e |-> "", table |-> t]
      IN  IF ~parsed.ok
            THEN [ok |-> FALSE, e |-> parsed.e, table |-> t, crc |-> crc]
          ELSE IF ~base.ok
            THEN [ok |-> FALSE, e |-> base.e, table |-> base.table, crc |-> crc]
          ELSE [ok |-> TRUE, e |-> "",
                table |-> AddWords(base.table,
                                   DerivedWords(line.word, ruleCodesArray, rs)),
                crc |-> PushCompoundWord(crc, ruleCodesArray, line.word)]
    ELSE [ok |-> TRUE, e |-> "",
          table |-> addWord(t, Trim(line.word), << >>).table,
          crc |-> crc]

(***************************************************************************)
(* The Compound Matcher.                                                   *)
(***************************************************************************)
RECURSIVE InitCompoundRuleCodes(_, _)
\* lines 64-71: an empty word list for every character of every compound rule
InitCompoundRuleCodes(crs, crc) ==
  IF crs = << >> THEN crc
  ELSE InitCompoundRuleCodes(Tail(crs),
         [c \in (DOMAIN crc) \cup {Head(crs).text[j] : j \in 1..Len(Head(crs).text)}
            |-> << >>])

\* lines 81-83: the codes no word of the dictionary carries are deleted
PruneCompoundRuleCodes(crc) ==
  [c \in {x \in DOMAIN crc : Len(crc[x]) # 0} |-> crc[c]]

\* lines 87-102: the regular expression of a compound rule, as the list of
\* its parts, each a list of alternatives: the words of a code, or the
\* character itself
CompileCompoundRule(rule, crc) ==
  [text |-> rule.text,
   regex |-> [j \in 1..Len(rule.text) |->
                IF rule.text[j] \in DOMAIN crc
                  THEN crc[rule.text[j]]
                  ELSE << << rule.text[j] >> >>],
   compiled |-> TRUE]

RECURSIVE MatchesAt(_, _, _, _)
\* whether parts k.. of the expression match word from position pos on,
\* letter case ignored (the 'i' flag)
MatchesAt(regex, k, word, pos) ==
  IF k > Len(regex) THEN TRUE
  ELSE \E a \in 1..Len(regex[k]) :
         /\ OccursAt(toLowerCase(word), toLowerCase(regex[k][a]), pos)
         /\ MatchesAt(regex, k + 1, word, pos + Len(regex[k][a]))

\* word.match(rule): the expression is not anchored
MatchesCompoundRule(word, rule) ==
  \E pos \in 1..(Len(word) + 1) : MatchesAt(rule.regex, 1, word, pos)

(***************************************************************************)
(* The state of an engine, and of the program around it.                   *)
(***************************************************************************)
VARIABLES
  pc,                 \* where the constructor is: "new" (line 41 reached),
                      \* "dic" (in parseDIC), "done" (returned), "failed"
  rules,              \* this.rules
  flags,              \* this.flags
  dictionaryTable,    \* the table parseDIC builds and line 77 stores
  compoundRules,      \* this.compoundRules
  compoundRuleCodes,  \* this.compoundRuleCodes
  replacementTable,   \* this.replacementTable
  memoized,           \* this.memoized
  loaded,             \* this.loaded
  alphabet,           \* this.alphabet
  dic,                \* the lines of the dictionary file read so far
  error,              \* what the constructor threw, if it failed
  last,               \* the last call on the engine and its outcome
  prev                \* the call before it, when both are suggest calls
                      \* for the same word

vars ==
  << pc, rules, flags, dictionaryTable, compoundRules, compoundRuleCodes,
     replacementTable, memoized, loaded, alphabet, dic, error, last, prev >>

engine ==
  << rules, flags, dictionaryTable, compoundRules, compoundRuleCodes,
     replacementTable, memoized, loaded, alphabet >>

Call(op, word, flag, limit, outcome) ==
  [op |-> op, word |-> word, flag |-> flag, limit |-> limit,
   outcome |-> outcome]

NoCall == Call("none", << >>, "", 0, NoOutcome)

\* lines 25-41 of the constructor
Init ==
  /\ pc = "new"
  /\ rules = EmptyMap
  /\ dictionaryTable = EmptyMap
  /\ compoundRules = << >>
  /\ compoundRuleCodes = EmptyMap
  /\ replacementTable = << >>
  /\ flags = EmptyMap
  /\ memoized = EmptyMap
  /\ loaded = FALSE
  /\ alphabet = << >>
  /\ dic = << >>
  /\ error = ""
  /\ last = NoCall
  /\ prev = NoCall

(***************************************************************************)
(* The constructor.                                                        *)
(***************************************************************************)
\* new Typo(): no language, lines 44-105 are skipped
ConstructWithoutLanguage ==
  /\ pc = "new"
  /\ pc' = "done"
  /\ UNCHANGED << engine, dic, error, last, prev >>

\* lines 61-75: parseAFF, then the codes the compound rules use
ConstructParseAFF(aff) ==
  /\ pc = "new"
  /\ LET r == parseAFF(aff, flags, compoundRules, replacementTable)
         crc == InitCompoundRuleCodes(r.compoundRules, EmptyMap)
     IN  /\ flags' = r.flags
         /\ compoundRules' = r.compoundRules
         /\ replacementTable' = r.replacementTable
         /\ rules' = IF r.ok THEN r.rules ELSE rules
         /\ compoundRuleCodes' =
              IF ~r.ok THEN compoundRuleCodes
              ELSE IF "ONLYINCOMPOUND" \in DOMAIN r.flags
                THEN Put(crc, r.flags["ONLYINCOMPOUND"], << >>)
                ELSE crc
         /\ pc' = IF r.ok THEN "dic" ELSE "failed"
         /\ error' = r.e
  /\ UNCHANGED << dictionaryTable, memoized, loaded, alphabet, dic, last, prev >>

\* one line of the dictionary file in parseDIC
ConstructParseDICLine(line) ==
  /\ pc = "dic"
  /\ Len(dic) < MaxEntries
  /\ LET r == parseDICLine(dictionaryTable, compoundRuleCodes, line, rules, flags)
     IN  /\ dictionaryTable' = r.table
         /\ compoundRuleCodes' = r.crc
         /\ pc' = IF r.ok THEN "dic" ELSE "failed"
         /\ error' = r.e
  /\ dic' = Append(dic, line)
  /\ UNCHANGED << rules, flags, compoundRules, replacementTable, memoized,
                  loaded, alphabet, last, prev >>

\* lines 77-104: the end of the file, the compound rules compiled, loaded
ConstructFinish ==
  /\ pc = "dic"
  /\ LET crc == PruneCompoundRuleCodes(compoundRuleCodes)
     IN  /\ compoundRuleCodes' = crc
         /\ compoundRules' =
              [i \in 1..Len(compoundRules) |->
                 CompileCompoundRule(compoundRules[i], crc)]
  /\ loaded' = TRUE
  /\ pc' = "done"
  /\ UNCHANGED << rules, flags, dictionaryTable, replacementTable, memoized,
                  alphabet, dic, error, last, prev >>

(***************************************************************************)
(* The Word Checker.                                                       *)
(***************************************************************************)
\* Array.prototype.concat.apply([], this.dictionaryTable[word])
WordFlags(word) ==
  IF word \in DOMAIN dictionaryTable
    THEN Flatten(dictionaryTable[word].sets)
    ELSE << >>

\* hasFlag(word, flag, wordFlags); given is whether wordFlags was passed
hasFlag(word, flag, wordFlags, given) ==
  IF ~loaded THEN Throw(NotLoadedError)
  ELSE RetBool(/\ flag \in DOMAIN flags
               /\ Contains(IF given THEN wordFlags ELSE WordFlags(word),
                           flags[flag]))

\* checkExact without the test of loaded that opens it
checkExactUnguarded(word) ==
  IF word \notin DOMAIN dictionaryTable
    THEN RetBool(/\ "COMPOUNDMIN" \in DOMAIN flags
                 /\ Len(word) >= ToNumber(flags["COMPOUNDMIN"])
                 /\ \E i \in 1..Len(compoundRules) :
                      MatchesCompoundRule(word, compoundRules[i]))
  ELSE IF dictionaryTable[word].tag = "null"
    THEN RetBool(TRUE)
  ELSE RetBool(\E i \in 1..Len(dictionaryTable[word].sets) :
                 ~hasFlag(word, "ONLYINCOMPOUND",
                          dictionaryTable[word].sets[i], TRUE).b)

\* checkExact(word)
checkExact(word) ==
  IF ~loaded THEN Throw(NotLoadedError)
  ELSE IF word \notin DOMAIN dictionaryTable
    THEN RetBool(/\ "COMPOUNDMIN" \in DOMAIN flags
                 /\ Len(word) >= ToNumber(flags["COMPOUNDMIN"])
                 /\ \E i \in 1..Len(compoundRules) :
                      MatchesCompoundRule(word, compoundRules[i]))
  ELSE IF dictionaryTable[word].tag = "null"
    THEN RetBool(TRUE)
  ELSE RetBool(\E i \in 1..Len(dictionaryTable[word].sets) :
                 ~hasFlag(word, "ONLYINCOMPOUND",
                          dictionaryTable[word].sets[i], TRUE).b)

\* check(aWord)
check(aWord) ==
  IF ~loaded THEN Throw(NotLoadedError)
  ELSE
    LET trimmedWord == Trim(aWord)
        allUpper == toUpperCase(trimmedWord) = trimmedWord
        \* trimmedWord[0] is undefined when the word is empty
        capitalizedWord ==
          (IF trimmedWord = << >> THEN UndefinedStr ELSE << trimmedWord[1] >>)
            \o toLowerCase(substring(trimmedWord, 1))
        uncapitalized ==
          << LowerChar(trimmedWord[1]) >> \o substring(trimmedWord, 1)
    IN  IF checkExact(trimmedWord).b THEN RetBool(TRUE)
        ELSE IF allUpper /\ hasFlag(capitalizedWord, "KEEPCASE", << >>, FALSE).b
          THEN RetBool(FALSE)
        ELSE IF allUpper /\ checkExact(capitalizedWord).b THEN RetBool(TRUE)
        ELSE IF allUpper /\ checkExact(toLowerCase(trimmedWord)).b
          THEN RetBool(TRUE)
        \* trimmedWord[0].toLowerCase() on undefined
        ELSE IF trimmedWord = << >> THEN Throw("TypeError")
        ELSE IF uncapitalized # trimmedWord
                /\ hasFlag(uncapitalized, "KEEPCASE", << >>, FALSE).b
          THEN RetBool(FALSE)
        ELSE RetBool(uncapitalized # trimmedWord /\ checkExact(uncapitalized).b)

(***************************************************************************)
(* The Suggestion Engine.                                                  *)
(***************************************************************************)
\* the alphabet in capitals
SuggestAlphabetUpper == SubSeq(Upper26, 1, AlphabetSize)

\* self.alphabet = 'abcdefghijklmnopqrstuvwxyz', cut to the model's bound
SuggestAlphabet == SubSeq(Lower26, 1, AlphabetSize)

\* the edits of one word in edits1, with alphabet alpha.  The splits are
\* (word[0..i), word[i..n)) for i = 0..n; a loop guarded by s[1] passes over
\* the splits i = 0..n-1 and the transpose loop over i = 0..n-2.  The insert
\* loop is guarded by s[1] too and pushes onto replaces; inserts stays empty.
Edits1Word(word, alpha) ==
  LET n == Len(word)
      m == Len(alpha)
      \* s[0] + s[1].substring(1) for the split i = k - 1
      deletes ==
        [k \in 1..n |-> [p \in 1..(n - 1) |-> IF p < k THEN word[p] ELSE word[p + 1]]]
      \* s[0] + s[1][1] + s[1][0] + s[1].substring(2) for the split i = k - 1
      transposes ==
        [x \in 1..Cardinality({k \in 1..(n - 1) : word[k + 1] # word[k]}) |->
           LET k == CHOOSE k \in 1..(n - 1) :
                      /\ word[k + 1] # word[k]
                      /\ Cardinality({q \in 1..k : word[q + 1] # word[q]}) = x
           IN  [p \in 1..n |-> IF p = k THEN word[k + 1]
                               ELSE IF p = k + 1 THEN word[k]
                               ELSE word[p]]]
      \* s[0] + alphabet[j] + s[1].substring(1), split by split
      replaces ==
        [x \in 1..(n * m) |->
           LET k == ((x - 1) \div m) + 1
               j == ((x - 1) % m) + 1
           IN  [p \in 1..n |-> IF p = k THEN alpha[j] ELSE word[p]]]
      \* s[0] + alphabet[j] + s[1], split by split, pushed onto replaces
      pushed ==
        [x \in 1..(n * m) |->
           LET k == ((x - 1) \div m) + 1
               j == ((x - 1) % m) + 1
           IN  [p \in 1..(n + 1) |-> IF p < k THEN word[p]
                                     ELSE IF p = k THEN alpha[j]
                                     ELSE word[p - 1]]]
      inserts == << >>
  IN  deletes \o transposes \o (replaces \o pushed) \o inserts

\* edits1(words)
edits1(words, alpha) ==
  Flatten([ii \in 1..Len(words) |-> Edits1Word(words[ii], alpha)])

\* known(words): whether a call of check in its loop throws, and the words
\* check accepts otherwise.  check throws on a loaded engine only at line
\* 500, which an empty trimmed word alone reaches.
knownThrows(words) ==
  \E i \in 1..Len(words) :
    Trim(words[i]) = << >> /\ check(words[i]).kind = "throw"

known(words) == SelectSeq(words, LAMBDA w : check(w).b)

\* correct(word): the candidates are generated and filtered, which throws
\* what check throws; the loop of line 745 then reads sortedcorrections, a
\* name that is not defined, so that nothing is returned
correct(word, alpha) ==
  LET ed1 == edits1(<< word >>, alpha)
      ed2 == edits1(ed1, alpha)
  IN  IF knownThrows(ed1) \/ knownThrows(ed2)
        THEN Throw("TypeError")
        ELSE Throw("ReferenceError")

\* lines 592-598: whether the list cached in memo answers the call
MemoHit(memo, word, limit) ==
  /\ word \in DOMAIN memo
  /\ \/ limit <= memo[word].limit
     \/ Len(memo[word].suggestions) < memo[word].limit

\* array.slice(0, limit)
slice(l, limit) == SubSeq(l, 1, IF limit < Len(l) THEN limit ELSE Len(l))

RECURSIVE Replacement(_, _)
\* lines 604-613 from entry i on: the list returned, the error thrown, or no
\* outcome when the loop ends
Replacement(word, i) ==
  IF i > Len(replacementTable) THEN NoOutcome
  ELSE
    LET replacementEntry == replacementTable[i]
        correctedWord == replaceFirst(word, replacementEntry[1], replacementEntry[2])
        c == check(correctedWord)
    IN  IF indexOf(word, replacementEntry[1]) = 0 THEN Replacement(word, i + 1)
        ELSE IF c.kind = "throw" THEN c
        ELSE IF c.b THEN RetList(<< correctedWord >>)
        ELSE Replacement(word, i + 1)

\* the cache with the entry of the word created before correct(word) has
\* returned, and left empty when it throws
MemoAfterEager(memo, word, limit, corrected) ==
  Put(memo, word,
      [suggestions |-> IF corrected.kind = "list" THEN corrected.l ELSE << >>,
       limit |-> limit])

\* the cache memo after lines 761-764, given what correct(word) came to: the
\* entry is written once correct has returned, and not when it throws
MemoAfter(memo, word, limit, corrected) ==
  IF corrected.kind = "list"
    THEN Put(memo, word, [suggestions |-> corrected.l, limit |-> limit])
    ELSE memo

\* suggest(word, limit) on an engine whose cache is memo, limitArg = 0
\* standing for no limit given: the outcome, and the alphabet and the cache
\* after the call
suggestFrom(memo, word, limitArg) ==
  LET limit == IF limitArg = 0 THEN DefaultLimit ELSE limitArg
      same(o) == [outcome |-> o, alphabet |-> alphabet, memoized |-> memo]
      c == check(word)
      r == Replacement(word, 1)
      corrected == correct(word, SuggestAlphabet)
      after == MemoAfter(memo, word, limit, corrected)
  IN  IF ~loaded THEN same(Throw(NotLoadedError))
      ELSE IF MemoHit(memo, word, limit)
        THEN same(RetList(slice(memo[word].suggestions, limit)))
      ELSE IF c.kind = "throw" THEN same(c)
      ELSE IF c.b THEN same(RetList(<< >>))
      ELSE IF r.kind # "none" THEN same(r)
      ELSE [outcome |-> IF corrected.kind = "list"
                          THEN RetList(after[word].suggestions)
                          ELSE corrected,
            alphabet |-> SuggestAlphabet,
            memoized |-> after]

\* suggest(word, limit) on the engine
suggest(word, limitArg) == suggestFrom(memoized, word, limitArg)

(***************************************************************************)
(* Calls on a constructed engine.                                          *)
(***************************************************************************)
QueryWords ==
  { << >>, << " " >>,
    << "a", "b" >>, << "A", "b" >>, << "A", "B" >>,
    << "a", "b", "s" >>, << "a", "b", "c" >>, << "a", "b", "c", "b" >>,
    << "a", "c" >>, << "a", "c", "b" >>, << "a", "b", "b" >> }

SuggestWords ==
  { << >>, << "a", "b" >>, << "a", "c" >>, << "a", "c", "b" >>,
    << "a", "b", "b" >> }

SuggestLimits == {0, 3}

FlagWords == { << "a", "b" >>, << "a", "b", "s" >> }

FlagNames == {"KEEPCASE", "NEEDAFFIX"}

\* a call is made when the caller holds no outcome; a suggest call may also
\* follow a suggest call for the same word at once
Idle == pc = "done" /\ last = NoCall

Check(word) ==
  /\ Idle
  /\ last' = Call("check", word, "", 0, check(word))
  /\ UNCHANGED << pc, engine, dic, error, prev >>

CheckExact(word) ==
  /\ Idle
  /\ last' = Call("checkExact", word, "", 0, checkExact(word))
  /\ UNCHANGED << pc, engine, dic, error, prev >>

HasFlag(word, flag) ==
  /\ Idle
  /\ last' = Call("hasFlag", word, flag, 0, hasFlag(word, flag, << >>, FALSE))
  /\ UNCHANGED << pc, engine, dic, error, prev >>

Suggest(word, limitArg) ==
  /\ pc = "done"
  /\ last = NoCall \/ (last.op = "suggest" /\ last.word = word /\ prev = NoCall)
  /\ LET r == suggest(word, limitArg)
     IN  /\ last' = Call("suggest", word, "", limitArg, r.outcome)
         /\ alphabet' = r.alphabet
         /\ memoized' = r.memoized
  /\ prev' = last
  /\ UNCHANGED << pc, rules, flags, dictionaryTable, compoundRules,
                  compoundRuleCodes, replacementTable, loaded, dic, error >>

\* the caller has used the outcome of the call
Return ==
  /\ pc = "done"
  /\ last # NoCall
  /\ last' = NoCall
  /\ prev' = NoCall
  /\ UNCHANGED << pc, engine, dic, error >>

Next ==
  \/ ConstructWithoutLanguage
  \/ \E aff \in AffFiles : ConstructParseAFF(aff)
  \/ \E line \in DicLines : ConstructParseDICLine(line)
  \/ ConstructFinish
  \/ \E word \in QueryWords : Check(word)
  \/ \E word \in QueryWords : CheckExact(word)
  \/ \E word \in FlagWords, flag \in FlagNames : HasFlag(word, flag)
  \/ \E word \in SuggestWords, limitArg \in SuggestLimits : Suggest(word, limitArg)
  \/ Return

Spec == Init /\ [][Next]_vars

(***************************************************************************)
(* The properties checked of the engine.                                   *)
(***************************************************************************)
Operations == {"check", "checkExact", "hasFlag", "suggest"}

\* the limit a suggest call works with
LimitOf(limitArg) == IF limitArg = 0 THEN DefaultLimit ELSE limitArg

\* the second of two consecutive suggest calls for a word has returned
TwoSuggests ==
  /\ loaded
  /\ last.op = "suggest"
  /\ prev.op = "suggest"
  /\ prev.word = last.word

\* C1: on an engine constructed without a language (loaded is false) every
\* check, checkExact, hasFlag and suggest call, for any word, throws
\* 'Dictionary not loaded.' and returns nothing; on an engine whose
\* construction succeeded no call throws that error.
C1_NotLoaded ==
  /\ (pc = "done" /\ ~loaded) =>
       /\ \A w \in QueryWords :
            /\ check(w) = Throw(NotLoadedError)
            /\ checkExact(w) = Throw(NotLoadedError)
            /\ \A f \in FlagNames :
                 hasFlag(w, f, << >>, FALSE) = Throw(NotLoadedError)
            /\ \A n \in SuggestLimits :
                 suggest(w, n).outcome = Throw(NotLoadedError)
       /\ last.op \in Operations => last.outcome = Throw(NotLoadedError)
  /\ (pc = "done" /\ loaded) =>
       /\ \A w \in QueryWords :
            /\ check(w).e # NotLoadedError
            /\ checkExact(w).e # NotLoadedError
            /\ \A f \in FlagNames :
                 hasFlag(w, f, << >>, FALSE).e # NotLoadedError
       /\ last.op \in Operations => last.outcome.e # NotLoadedError

\* an engine constructed without a language has answered a suggest call
\* with the error
C1_Witness ==
  /\ pc = "done"
  /\ ~loaded
  /\ last.op = "suggest"
  /\ last.word # << >>
  /\ last.outcome = Throw(NotLoadedError)

\* the words of the queries written in lower-case letters
LowercaseWords ==
  {w \in QueryWords :
     /\ w # << >>
     /\ \A i \in 1..Len(w) : \E k \in 1..Len(Lower26) : w[i] = Lower26[k]}

\* first letter upper, rest lower
Capitalized(w) == << UpperChar(w[1]) >> \o toLowerCase(substring(w, 1))

\* the dictionary file read lists w with the code of KEEPCASE
ListedWithKeepCase(w) ==
  /\ "KEEPCASE" \in DOMAIN flags
  /\ \E i \in 1..Len(dic) :
       /\ dic[i].slash
       /\ dic[i].word = w
       /\ Contains(dic[i].codes, flags["KEEPCASE"])

\* C2: for every lowercase word w that check accepts: when w does not carry
\* KEEPCASE, check accepts the all-uppercase form and the capitalized form
\* of w; when w carries KEEPCASE, check rejects both. A word carries
\* KEEPCASE by a dictionary line that lists it with the code of the flag, so
\* the engine of the second case is one constructed from such a line.
C2_CapitalizationRoundTrip ==
  \A w \in LowercaseWords :
    /\ ListedWithKeepCase(w) => pc # "failed"
    /\ (loaded /\ check(w) = RetBool(TRUE)) =>
         IF ListedWithKeepCase(w) \/ hasFlag(w, "KEEPCASE", << >>, FALSE).b
           THEN /\ check(toUpperCase(w)) = RetBool(FALSE)
                /\ check(Capitalized(w)) = RetBool(FALSE)
           ELSE /\ check(toUpperCase(w)) = RetBool(TRUE)
                /\ check(Capitalized(w)) = RetBool(TRUE)

\* the forms of a word check looks up
CaseForms(w) ==
  LET t == Trim(w)
  IN  IF t = << >> THEN {t}
      ELSE {t, toLowerCase(t), Capitalized(t),
            << LowerChar(t[1]) >> \o substring(t, 1)}

\* w is not in the dictionary table and matches no compound rule
Unknown(w) ==
  /\ w \notin DOMAIN dictionaryTable
  /\ \A i \in 1..Len(compoundRules) : ~MatchesCompoundRule(w, compoundRules[i])

\* C3: on a loaded engine check and checkExact never throw, whatever the
\* word (the empty string and a blank string included), and answer false
\* for a word that is not in the dictionary table and matches no compound
\* rule.
C3_LookupsNeverThrow ==
  (loaded /\ last.op \in {"check", "checkExact"}) =>
    /\ last.outcome.kind = "bool"
    /\ (last.op = "checkExact" /\ Unknown(last.word)) => ~last.outcome.b
    /\ (last.op = "check" /\ \A f \in CaseForms(last.word) : Unknown(f)) =>
         ~last.outcome.b

RECURSIVE Concatenations(_)
\* the words made of one word of each flag of a compound rule, in its order
Concatenations(text) ==
  IF text = << >> THEN {<< >>}
  ELSE {compoundRuleCodes[Head(text)][i] \o rest :
          i \in 1..Len(compoundRuleCodes[Head(text)]),
          rest \in Concatenations(Tail(text))}

\* every flag of every compound rule has words in the dictionary
CompoundFlagsCovered ==
  /\ Len(compoundRules) > 0
  /\ \A i \in 1..Len(compoundRules) :
       \A k \in 1..Len(compoundRules[i].text) :
         /\ compoundRules[i].text[k] \in DOMAIN compoundRuleCodes
         /\ Len(compoundRuleCodes[compoundRules[i].text[k]]) > 0

\* C6: with COMPOUNDMIN set and the compound rule AB, the dictionary listing
\* words of flag A and words of flag B: for a word that is not in the
\* dictionary table and is COMPOUNDMIN long or longer, checkExact returns
\* true when the word is a word of flag A followed by a word of flag B,
\* letter case aside, and false when it is not.
C6_CompoundWords ==
  (loaded /\ "COMPOUNDMIN" \in DOMAIN flags /\ CompoundFlagsCovered) =>
    \A w \in QueryWords :
      ( /\ w \notin DOMAIN dictionaryTable
        /\ Len(w) >= ToNumber(flags["COMPOUNDMIN"]) ) =>
        checkExact(w) =
          RetBool(\E i \in 1..Len(compoundRules) :
                    \E c \in Concatenations(compoundRules[i].text) :
                      toLowerCase(c) = toLowerCase(w))

\* line i of the dictionary file read lists a word with the code of a suffix
\* rule, and with neither NEEDAFFIX nor ONLYINCOMPOUND
SuffixedEntry(i) ==
  /\ dic[i].slash
  /\ "FLAG" \notin DOMAIN flags
  /\ \E k \in 1..Len(dic[i].codes) :
       /\ dic[i].codes[k] \in DOMAIN rules
       /\ rules[dic[i].codes[k]].type = "SFX"
  /\ \A f \in {"NEEDAFFIX", "ONLYINCOMPOUND"} :
       f \in DOMAIN flags => ~Contains(dic[i].codes, flags[f])

\* C7: the construction of the engine from a dictionary entry base/CODES in
\* which a code names a suffix rule completes, and leaves the base word and
\* every derived form in the dictionary table, every derived form with the
\* value null, so that checkExact accepts the base word and the derived
\* forms.
C7_AffixExpansion ==
  \A i \in 1..Len(dic) :
    SuffixedEntry(i) =>
      /\ pc # "failed"
      /\ loaded =>
           LET derived == DerivedWords(dic[i].word, dic[i].codes, rules)
           IN  /\ Len(derived) > 0
               /\ dic[i].word \in DOMAIN dictionaryTable
               /\ checkExact(dic[i].word) = RetBool(TRUE)
               /\ \A k \in 1..Len(derived) :
                    /\ derived[k] \in DOMAIN dictionaryTable
                    /\ dictionaryTable[derived[k]] = Null
                    /\ checkExact(derived[k]) = RetBool(TRUE)

\* d is w with one letter deleted
OneDeleted(w, d) ==
  /\ Len(d) = Len(w) - 1
  /\ \E k \in 1..Len(w) : d = SubSeq(w, 1, k - 1) \o SubSeq(w, k + 1, Len(w))

\* d is made from w by one edit: a letter deleted, inserted or replaced, or
\* two neighbours swapped
OneEdit(w, d) ==
  /\ d # w
  /\ \/ OneDeleted(w, d)
     \/ OneDeleted(d, w)
     \/ /\ Len(d) = Len(w)
        /\ Cardinality({k \in 1..Len(w) : w[k] # d[k]}) = 1
     \/ /\ Len(d) = Len(w)
        /\ \E k \in 1..(Len(w) - 1) :
             /\ d[k] = w[k + 1]
             /\ d[k + 1] = w[k]
             /\ \A j \in 1..Len(w) : j \notin {k, k + 1} => d[j] = w[j]

\* the dictionary words written in the letters of the suggestion alphabet
\* that one edit makes from w
OneEditWords(w) ==
  {d \in DOMAIN dictionaryTable :
     /\ OneEdit(w, d)
     /\ \A k \in 1..Len(d) : \E j \in 1..AlphabetSize : d[k] = Lower26[j]}

\* C8: for a word w that check rejects and a dictionary word d one edit
\* away from w, when the dictionary holds fewer words than the limit,
\* suggest(w, limit) returns a list that contains d and does not contain w.
C8_SuggestOneEdit ==
  ( /\ loaded
    /\ last.op = "suggest"
    /\ check(last.word) = RetBool(FALSE)
    /\ OneEditWords(last.word) # {}
    /\ Cardinality(DOMAIN dictionaryTable) < LimitOf(last.limit) ) =>
    /\ last.outcome.kind = "list"
    /\ \A d \in OneEditWords(last.word) : Contains(last.outcome.l, d)
    /\ ~Contains(last.outcome.l, last.word)

\* line i of the dictionary file read registers its word with a rule-code
\* set that is not empty
FlaggedEntry(i) ==
  /\ dic[i].slash
  /\ dic[i].codes # << >>
  /\ "FLAG" \notin DOMAIN flags
  /\ "NEEDAFFIX" \in DOMAIN flags => ~Contains(dic[i].codes, flags["NEEDAFFIX"])

\* C9: while the dictionary is built, whatever the order in which a word is
\* registered (as a flagged base word, as a flagless derived form, again
\* with another rule-code set), every registration succeeds and every
\* rule-code set that is not empty is in the list the table holds for the
\* word, which is a list from then on.
C9_RuleCodeSetsAccumulate ==
  /\ ~(pc = "failed" /\ error = "TypeError")
  /\ \A i \in 1..Len(dic) :
       FlaggedEntry(i) =>
         /\ dic[i].word \in DOMAIN dictionaryTable
         /\ dictionaryTable[dic[i].word].tag = "list"
         /\ Contains(dictionaryTable[dic[i].word].sets, dic[i].codes)

\* the cache holds every entry it held
MemoGrows ==
  \A w \in DOMAIN memoized : w \in DOMAIN memoized' /\ memoized'[w] = memoized[w]

\* what no call changes
ReadOnlyParts ==
  << rules, flags, dictionaryTable, compoundRules, compoundRuleCodes,
     replacementTable, loaded >>

\* C10 as the specification states it: once constructed, the engine's
\* rules, flags, dictionary table, compound rules, replacement table,
\* alphabet and loaded are never changed by a call, and the memo cache only
\* grows.
C10_ReadOnlyWithAlphabet ==
  [][pc = "done" =>
       /\ UNCHANGED ReadOnlyParts
       /\ alphabet' = alphabet
       /\ MemoGrows]_vars

\* C10: once constructed, the engine's rules, flags, dictionary table,
\* compound rules, replacement table and loaded are never changed by a call
\* and the memo cache only grows; the alphabet is changed by suggest alone,
\* which sets it to the first letters of a..z when the call gets as far as
\* generating candidates.
C10_ReadOnlyButAlphabet ==
  [][pc = "done" =>
       /\ UNCHANGED ReadOnlyParts
       /\ MemoGrows
       /\ \/ alphabet' = alphabet
          \/ /\ last'.op = "suggest"
             /\ loaded
             /\ alphabet' = SubSeq(Lower26, 1, AlphabetSize)]_vars

\* a suggest call on a loaded engine has set the alphabet
C10_Witness ==
  /\ pc = "done"
  /\ loaded
  /\ last.op = "suggest"
  /\ last.outcome.kind = "throw"
  /\ alphabet = SubSeq(Lower26, 1, AlphabetSize)

\* the words check accepts among the words one edit makes of w, none of them
\* flagged NOSUGGEST: candidates every ranking of suggest(w) holds
EligibleCandidates(w) ==
  LET ed1 == edits1(<< w >>, SuggestAlphabet)
  IN  {ed1[i] : i \in {k \in 1..Len(ed1) :
                         /\ Trim(ed1[k]) # << >>
                         /\ check(ed1[k]) = RetBool(TRUE)
                         /\ ~hasFlag(ed1[k], "NOSUGGEST", << >>, FALSE).b}}

\* C11: suggest(w, limit) returns no candidate flagged NOSUGGEST, and when
\* the candidates of a word that check rejects hold limit words or more
\* that are not flagged NOSUGGEST, suggest(w, limit) returns a list of
\* exactly limit suggestions.
C11_NoSuggestCompensated ==
  (loaded /\ last.op = "suggest") =>
    /\ \A i \in 1..Len(last.outcome.l) :
         ~hasFlag(last.outcome.l[i], "NOSUGGEST", << >>, FALSE).b
    /\ ( /\ Trim(last.word) # << >>
         /\ check(last.word) = RetBool(FALSE)
         /\ Replacement(last.word, 1).kind = "none"
         /\ Cardinality(EligibleCandidates(last.word)) >= LimitOf(last.limit) ) =>
         /\ last.outcome.kind = "list"
         /\ Len(last.outcome.l) = LimitOf(last.limit)

\* line i of the dictionary file read lists its word with rule codes, on an
\* engine that declares NEEDAFFIX
NeedAffixEntry(i) ==
  /\ dic[i].slash
  /\ dic[i].codes # << >>
  /\ "NEEDAFFIX" \in DOMAIN flags
  /\ "FLAG" \notin DOMAIN flags

\* a line other than line i registers the word of line i: as a bare word, as
\* a base word without the NEEDAFFIX code, or as a derived form
RegisteredByOther(i) ==
  \E j \in (1..Len(dic)) \ {i} :
    \/ ~dic[j].slash /\ Trim(dic[j].word) = dic[i].word
    \/ /\ dic[j].slash
       /\ \/ /\ dic[j].word = dic[i].word
             /\ ~Contains(dic[j].codes, flags["NEEDAFFIX"])
          \/ Contains(DerivedWords(dic[j].word, dic[j].codes, rules),
                      dic[i].word)

\* C12: with NEEDAFFIX declared, a dictionary entry whose rule codes include
\* the code of NEEDAFFIX does not register its base word (checkExact rejects
\* it unless another entry registers it) while every form its affix rules
\* derive is registered and accepted; an entry whose rule codes do not
\* include the code is read and registers its base word.
C12_NeedAffix ==
  \A i \in 1..Len(dic) :
    NeedAffixEntry(i) =>
      LET derived == DerivedWords(dic[i].word, dic[i].codes, rules)
      IN  /\ ~(pc = "failed" /\ i = Len(dic))
          /\ (loaded /\ Contains(dic[i].codes, flags["NEEDAFFIX"])) =>
               /\ ~RegisteredByOther(i) /\ ~Contains(derived, dic[i].word) =>
                    checkExact(dic[i].word) = RetBool(FALSE)
               /\ \A k \in 1..Len(derived) :
                    /\ derived[k] \in DOMAIN dictionaryTable
                    /\ checkExact(derived[k]) = RetBool(TRUE)
          /\ (loaded /\ ~Contains(dic[i].codes, flags["NEEDAFFIX"])) =>
               dic[i].word \in DOMAIN dictionaryTable

\* w with a letter of alpha inserted at a split point, from before the first
\* letter to after the last
Insertions(w, alpha) ==
  {SubSeq(w, 1, k) \o << alpha[j] >> \o SubSeq(w, k + 1, Len(w)) :
     k \in 0..Len(w), j \in 1..Len(alpha)}

\* w with one letter removed
Deletions(w) ==
  {SubSeq(w, 1, k - 1) \o SubSeq(w, k + 1, Len(w)) : k \in 1..Len(w)}

\* w with two neighbours that differ swapped
Transpositions(w) ==
  {[p \in 1..Len(w) |-> IF p = k THEN w[k + 1]
                        ELSE IF p = k + 1 THEN w[k]
                        ELSE w[p]] :
     k \in {q \in 1..(Len(w) - 1) : w[q] # w[q + 1]}}

\* w with one letter replaced by a letter of alpha
Substitutions(w, alpha) ==
  {[w EXCEPT ![k] = alpha[j]] : k \in 1..Len(w), j \in 1..Len(alpha)}

\* C13: the candidates one edit away that the suggestion engine makes of a
\* word hold every insertion of every letter of the alphabet at every split
\* point of the word, from position 0 to position length, every deletion of
\* one letter, every transposition of two neighbours that differ and every
\* substitution of one letter by a letter of the alphabet.
C13_Edits1Complete ==
  (loaded /\ last.op = "suggest" /\ alphabet # << >>) =>
    LET candidates == edits1(<< last.word >>, alphabet)
        made == {candidates[i] : i \in 1..Len(candidates)}
    IN  /\ Insertions(last.word, alphabet) \subseteq made
        /\ Deletions(last.word) \subseteq made
        /\ Transpositions(last.word) \subseteq made
        /\ Substitutions(last.word, alphabet) \subseteq made

====
